---- MODULE Spec2Model ----
(***************************************************************************)
(* A model of generate_stats.py: one run of the GitHub stats job is the    *)
(* sequence main -> GitHubStatsGenerator() -> generate_stats ->            *)
(* update_readme.  Every blocking HTTP request is one step; the server's   *)
(* answer is the input of that step.  The job is started again by its      *)
(* scheduler, and the two artifact files survive from one run to the next. *)
(***************************************************************************)
EXTENDS Integers, Sequences, FiniteSets, TLC

(***************************************************************************)
(* Bounds of the model.                                                    *)
(***************************************************************************)
MaxRuns == 2          \* consecutive runs of the job
MaxRepoPages == 2     \* the server has at most this many non-empty repository pages
MaxPageLen == 2       \* items of a freely chosen page
BigPageLen == 6       \* length of the one long repository page
TicksPerDay == 2      \* clock resolution: instants per calendar day
Day0 == 10            \* the calendar day on which the runs take place
MaxBurst == 10        \* events of one day on the page of a busy user

(***************************************************************************)
(* Constants of the program.                                               *)
(***************************************************************************)
MAX_EVENT_PAGES == 10     \* while page <= 10
EVENT_DAYS == 7           \* self.get_user_events(7)
MAX_RELEASE_PROBES == 10  \* repos[:10]

VARIABLES
  pc,                \* position of the run
  run,               \* number of the current run
  http,              \* the requests of this run and their answers, in order
  username,          \* self.username
  config,            \* self.config, <<>> until loaded
  profile,           \* generate_stats: profile
  repos,             \* get_user_repos: repos
  repos_page,        \* get_user_repos: page
  events,            \* get_user_events: events
  events_page,       \* get_user_events: page
  now,               \* the clock reading taken by get_user_events
  cutoff_date,       \* get_user_events: cutoff_date
  orgs,              \* generate_stats: orgs
  licenses_mode,     \* analyze_repos: most_common_license
  probe_i,           \* analyze_repos: index of the repository probed next
  releases_count,    \* analyze_repos: releases_count
  repo_stats,        \* generate_stats: repo_stats
  activity_stats,    \* generate_stats: activity_stats
  starred,           \* generate_stats: starred
  watching,          \* generate_stats: watching
  open_issues,       \* generate_stats: open_issues
  issue_comments,    \* generate_stats: issue_comments
  stats,             \* generate_stats: stats (the snapshot), <<>> until built
  svg_content,       \* main: svg_content, <<>> until rendered
  today,             \* generate_profile_section: today, 0 until read
  config_file,       \* config.json: <<>> when absent, else <<document>>
  svg_file,          \* github-stats.svg: <<>> when absent, else <<content>>
  readme_file,       \* README.md: <<>> when absent, else <<content>>
  svg_at_start,      \* github-stats.svg as the run found it
  readme_at_start,   \* README.md as the run found it
  calls,             \* the update_readme calls made so far, in order
  agg_started        \* metrics whose aggregation has begun in this run

vars == <<pc, run, http, username, config, profile, repos, repos_page, events,
          events_page, now, cutoff_date, orgs, licenses_mode, probe_i,
          releases_count, repo_stats, activity_stats, starred, watching,
          open_issues, issue_comments, stats, svg_content, today, svg_file,
          readme_file, svg_at_start, readme_at_start, calls, config_file,
          agg_started>>

(***************************************************************************)
(* Helpers.                                                                *)
(***************************************************************************)
Min(a, b) == IF a <= b THEN a ELSE b

Last(s) == s[Len(s)]

SeqsUpTo(S, n) == UNION {[1..k -> S] : k \in 0..n}

RECURSIVE SumSeq(_)
SumSeq(s) == IF s = <<>> THEN 0 ELSE Head(s) + SumSeq(Tail(s))

RECURSIVE Concat(_)
Concat(ss) == IF ss = <<>> THEN <<>> ELSE Head(ss) \o Concat(Tail(ss))

(***************************************************************************)
(* HTTP.  A response is its status, its Link header and its decoded body.  *)
(* requests follows redirects itself, so the statuses the program sees are *)
(* 2xx, 4xx and 5xx.                                                       *)
(***************************************************************************)
StatusCodes == {200, 404, 500}

raise_for_status_5xx(status) == 500 <= status /\ status < 600

\* requests.Response.raise_for_status: HTTPError for 4xx and 5xx
raise_for_status(status) == 400 <= status /\ status < 600

NoLink == <<>>

Response(status, link, body) == [status |-> status, link |-> link, body |-> body]

Request(endpoint, page, resp) ==
  [endpoint |-> endpoint, page |-> page, status |-> resp.status,
   link |-> resp.link, body |-> resp.body]

RequestsTo(endpoint) == SelectSeq(http, LAMBDA r : r.endpoint = endpoint)

AnyOf(S) == CHOOSE x \in S : TRUE

\* what a server may answer on an endpoint whose 2xx bodies are `bodies`
Answers(bodies) ==
  {Response(200, NoLink, b) : b \in bodies}
    \cup {Response(s, NoLink, AnyOf(bodies)) : s \in StatusCodes \ {200}}

(***************************************************************************)
(* Time.  An instant is a number of ticks; a timestamp string              *)
(* "YYYY-MM-DDTHH:MM:SSZ" is its date part and its time-of-day part.       *)
(***************************************************************************)
Timestamp(date, time) == [date |-> date, time |-> time]

\* datetime.strptime(created_at, "%Y-%m-%dT%H:%M:%SZ")
strptime(created_at) == created_at.date * TicksPerDay + created_at.time

\* created_at[:10]
DatePortion(created_at) == created_at.date

\* datetime.strftime("%Y-%m-%d") of an instant
strftime_date(t) == t \div TicksPerDay

\* timedelta(days=n)
timedelta(days) == days * TicksPerDay

\* the clock readings a run may take
Clock == {Day0 * TicksPerDay + k : k \in 0..(TicksPerDay - 1)}

(***************************************************************************)
(* The data the server holds.                                              *)
(***************************************************************************)
Event(type, action, date, time) ==
  [type |-> type, action |-> action, created_at |-> Timestamp(date, time)]

\* action "" stands for a payload without an action
EventSet ==
  { Event("PushEvent", "", Day0, 0),
    Event("PullRequestEvent", "opened", Day0 - 1, TicksPerDay - 1),
    Event("PullRequestEvent", "closed", Day0 - 1, 0),
    Event("PullRequestReviewEvent", "created", Day0 - EVENT_DAYS, 0),
    Event("IssuesEvent", "opened", Day0 - EVENT_DAYS, TicksPerDay - 1),
    Event("WatchEvent", "started", Day0 - EVENT_DAYS - 1, 0) }

RecentPush == Event("PushEvent", "", Day0, 0)

OldPush == Event("PushEvent", "", Day0 - EVENT_DAYS - 1, TicksPerDay - 1)

\* the bodies the events endpoint may return for page p: any short page
\* for the first page, pushes for the later ones
EventPages ==
  [p \in 1..(MAX_EVENT_PAGES + 1) |->
     IF p = 1 THEN SeqsUpTo(EventSet, MaxPageLen)
     ELSE {<<>>, <<RecentPush>>, <<OldPush>>, <<RecentPush, OldPush, RecentPush>>}]

\* a user with at most one recent event
FewEventPages ==
  [p \in 1..(MAX_EVENT_PAGES + 1) |-> IF p = 1 THEN {<<>>, <<RecentPush>>} ELSE {<<>>}]

NoEventPages == [p \in 1..(MAX_EVENT_PAGES + 1) |-> {<<>>}]

\* the page of a busy user, newest first: a pushes today, b pushes late on
\* the day six days ago, c pushes late on the day seven days ago
Burst(a, b, c) ==
  [i \in 1..a |-> Event("PushEvent", "", Day0, 0)]
    \o [i \in 1..b |-> Event("PushEvent", "", Day0 - 6, TicksPerDay - 1)]
    \o [i \in 1..c |-> Event("PushEvent", "", Day0 - EVENT_DAYS, TicksPerDay - 1)]

BurstPages ==
  [p \in 1..(MAX_EVENT_PAGES + 1) |->
     IF p = 1
     THEN {Burst(a, b, c) : a \in 0..MaxBurst, b \in 0..MaxBurst, c \in 0..1}
     ELSE {<<>>}]

Repo(name, license, stars, size, releases_url) ==
  [name |-> name, license |-> license, stargazers_count |-> stars,
   forks_count |-> 1, watchers_count |-> stars, size |-> size,
   releases_url |-> releases_url]

\* license <<>> stands for "license": null
RepoSet ==
  { Repo("a", <<"mit">>, 1, 1024, "a/releases"),
    Repo("b", <<"apache-2.0">>, 0, 512, "b/releases"),
    Repo("c", <<>>, 2, 0, "c/releases"),
    Repo("d", <<"mit">>, 0, 2048, "d/releases") }

BigPage ==
  [i \in 1..BigPageLen |->
     CASE i % 5 = 1 -> Repo("a", <<"mit">>, 1, 1024, "a/releases")
       [] i % 5 = 2 -> Repo("b", <<"apache-2.0">>, 0, 512, "b/releases")
       [] i % 5 = 3 -> Repo("c", <<>>, 2, 0, "c/releases")
       [] i % 5 = 4 -> Repo("e", <<>>, 0, 100, "e/releases")
       [] OTHER -> Repo("d", <<"mit">>, 0, 2048, "d/releases")]

\* the bodies the repositories endpoint may return for page p: any short
\* page or the long one for the first page, three choices for the later ones
RepoPages ==
  [p \in 1..(MaxRepoPages + 1) |->
     IF p = 1 THEN SeqsUpTo(RepoSet, MaxPageLen) \cup {BigPage}
     ELSE IF p <= MaxRepoPages
     THEN {<<>>, BigPage, <<Repo("c", <<>>, 2, 0, "c/releases")>>}
     ELSE {<<>>}]

FewRepoPages ==
  [p \in 1..2 |->
     IF p = 1 THEN {<<>>, <<Repo("a", <<"mit">>, 1, 1024, "a/releases"),
                            Repo("d", <<"mit">>, 0, 2048, "d/releases")>>}
     ELSE {<<>>}]

\* a user with two repositories on one page
TwoRepoPages ==
  [p \in 1..2 |->
     IF p = 1 THEN {<<Repo("a", <<"mit">>, 1, 1024, "a/releases"),
                      Repo("d", <<"mit">>, 0, 2048, "d/releases")>>}
     ELSE {<<>>}]

\* what the releases endpoint of a repository does when probed: it answers,
\* or the request times out after 2 seconds, or the connection fails
ReleasesEndpoint(url) ==
  CASE url = "a/releases" -> [kind |-> "response", status |-> 200, items |-> 1]
    [] url = "b/releases" -> [kind |-> "timeout", status |-> 0, items |-> 0]
    [] url = "c/releases" -> [kind |-> "response", status |-> 404, items |-> 2]
    [] url = "d/releases" -> [kind |-> "response", status |-> 200, items |-> 2]
    [] OTHER -> [kind |-> "error", status |-> 0, items |-> 0]

UserBodies == {[login |-> "octocat"]}

ProfileBodies ==
  {[name |-> "The Octocat", created_at |-> Timestamp(1, 0), followers |-> 3,
    following |-> 1, public_repos |-> 2, hireable |-> FALSE]}

OrgBodies == {<<>>, <<"github">>}

SearchBodies == {[total_count |-> 0], [total_count |-> 4]}

FewOrgBodies == {<<"github">>}

FewSearchBodies == {[total_count |-> 4]}

(***************************************************************************)
(* The display configuration.  A dict is a function; a key that is missing *)
(* is outside its domain.  config.json holds the parsed document.          *)
(***************************************************************************)
NoConfig == <<>>

\* d.get(key, default)
dict_get(d, key, default) == IF key \in DOMAIN d THEN d[key] ELSE default

EmptyDict == [k \in {} |-> TRUE]

_default_config ==
  [profile |-> [name |-> TRUE, joined_date |-> TRUE, followers |-> TRUE,
                available_for_hire |-> TRUE],
   calendar |-> [enabled |-> TRUE],
   activity_stats |-> [commits |-> TRUE, pr_reviews |-> TRUE,
                       prs_opened |-> TRUE, issues_open |-> TRUE,
                       issue_comments |-> TRUE],
   community_stats |-> [organizations |-> TRUE, following |-> TRUE,
                        starred |-> TRUE, watching |-> TRUE],
   repository_stats |-> [total_repos |-> TRUE, license |-> TRUE,
                         releases |-> TRUE, packages |-> TRUE,
                         disk_usage |-> TRUE],
   metadata |-> [stargazers |-> TRUE, forkers |-> TRUE, watchers |-> TRUE]]

\* the document when config.json exists, the defaults otherwise
_load_config(file) == IF file # <<>> THEN file[1] ELSE _default_config

\* the four panels of the graphic, left to right
Panels == <<"activity_stats", "community_stats", "repository_stats", "metadata">>

\* the fields of a panel, in the order the renderer tests them
PanelFields(panel) ==
  CASE panel = "activity_stats" ->
         <<"commits", "pr_reviews", "prs_opened", "issues_open", "issue_comments">>
    [] panel = "community_stats" ->
         <<"organizations", "following", "starred", "watching">>
    [] panel = "repository_stats" ->
         <<"total_repos", "license", "releases", "packages", "disk_usage">>
    [] panel = "metadata" -> <<"stargazers", "forkers", "watchers">>

\* the x of a panel's header and of its icons
PanelX(panel) ==
  CASE panel = "activity_stats" -> 20
    [] panel = "community_stats" -> 240
    [] panel = "repository_stats" -> 460
    [] panel = "metadata" -> 680

PanelTitle(panel) ==
  CASE panel = "activity_stats" -> "Activity Stats"
    [] panel = "community_stats" -> "Community Stats"
    [] panel = "repository_stats" -> "Repository Stats"
    [] panel = "metadata" -> "Metadata"

FieldSet(panel) == {PanelFields(panel)[i] : i \in 1..Len(PanelFields(panel))}

\* the settings a panel's section of config.json may hold: every field
\* true or false, or only the disabled fields present
PanelSettings(panel) ==
  {[f \in FieldSet(panel) |-> f \notin off] : off \in SUBSET FieldSet(panel)}
    \cup {[f \in off |-> FALSE] : off \in SUBSET FieldSet(panel)}

\* three settings of a panel: all fields on, all off, only the first off
PanelPatterns(panel) ==
  {_default_config[panel], [f \in FieldSet(panel) |-> FALSE],
   [f \in {PanelFields(panel)[1]} |-> FALSE]}

\* the documents config.json may hold: the defaults with one panel set
\* freely, the four panels set to patterns, or sections missing
ConfigSet ==
  UNION {{[s \in DOMAIN _default_config |->
             IF s = Panels[k] THEN setting ELSE _default_config[s]] :
           setting \in PanelSettings(Panels[k])} : k \in 1..Len(Panels)}
    \cup {[s \in DOMAIN _default_config |->
             CASE s = Panels[1] -> a
               [] s = Panels[2] -> b
               [] s = Panels[3] -> c
               [] s = Panels[4] -> d
               [] OTHER -> _default_config[s]] :
           a \in PanelPatterns(Panels[1]), b \in PanelPatterns(Panels[2]),
           c \in PanelPatterns(Panels[3]), d \in PanelPatterns(Panels[4])}
    \cup {EmptyDict, [calendar |-> [enabled |-> FALSE]]}

(***************************************************************************)
(* The run.                                                                *)
(***************************************************************************)
fetched == <<username, config, profile, repos, repos_page, events, events_page, now,
             cutoff_date, orgs>>

analysed == <<licenses_mode, probe_i, releases_count, repo_stats,
              activity_stats, agg_started>>

counted == <<starred, watching, open_issues, issue_comments>>

output == <<stats, svg_content, today>>

files == <<svg_file, readme_file, svg_at_start, readme_at_start, calls,
          config_file>>

NoStats == <<>>

NoSvg == <<>>

\* the locals of a run before it has assigned them
FreshRun ==
  /\ http = <<>>
  /\ username = ""
  /\ config = NoConfig
  /\ profile = <<>>
  /\ repos = <<>>
  /\ repos_page = 1
  /\ events = <<>>
  /\ events_page = 1
  /\ now = 0
  /\ cutoff_date = 0
  /\ orgs = <<>>
  /\ licenses_mode = ""
  /\ probe_i = 1
  /\ releases_count = 0
  /\ repo_stats = <<>>
  /\ activity_stats = <<>>
  /\ starred = 0
  /\ watching = 0
  /\ open_issues = 0
  /\ issue_comments = 0
  /\ stats = NoStats
  /\ svg_content = NoSvg
  /\ today = 0
  /\ agg_started = {}

\* an unhandled exception: the process ends, nothing else happens
Abort ==
  /\ pc' = "aborted"
  /\ UNCHANGED <<run, fetched, analysed, counted, output, files>>

\* main, up to the construction of the generator: the token is required
main ==
  /\ pc = "main"
  /\ \E token \in {"", "ghp_token"} :
       pc' = IF token = "" THEN "aborted" ELSE "init"
  /\ UNCHANGED <<run, http, fetched, analysed, counted, output, files>>

\* GitHubStatsGenerator.__init__ with _get_authenticated_user
get_authenticated_user(Resps) ==
  /\ pc = "init"
  /\ \E resp \in Resps :
       /\ http' = Append(http, Request("user", 0, resp))
       /\ IF raise_for_status(resp.status) THEN Abort
          ELSE /\ username' = resp.body.login
               /\ config' = _load_config(config_file)
               /\ pc' = "profile"
               /\ UNCHANGED <<run, profile, repos, repos_page, events,
                              events_page, now, cutoff_date, orgs, analysed,
                              counted, output, files>>

get_user_profile(Resps) ==
  /\ pc = "profile"
  /\ \E resp \in Resps :
       /\ http' = Append(http, Request("profile", 0, resp))
       /\ IF raise_for_status(resp.status) THEN Abort
          ELSE /\ profile' = resp.body
               /\ pc' = "repos"
               /\ UNCHANGED <<run, username, config, repos, repos_page, events,
                              events_page, now, cutoff_date, orgs, analysed,
                              counted, output, files>>

extend_replacing(list, data) == data

\* list.extend(data)
extend(list, data) == list \o data

\* one iteration of the loop of get_user_repos: request the page, stop at
\* an empty one, otherwise keep all its items and go on to the next page
get_user_repos(Pages) ==
  /\ pc = "repos"
  /\ \E resp \in Answers(Pages[repos_page]) :
       /\ http' = Append(http, Request("repos", repos_page, resp))
       /\ IF raise_for_status(resp.status) THEN Abort
          ELSE /\ IF resp.body = <<>>
                  THEN /\ pc' = "events_begin"
                       /\ UNCHANGED <<repos, repos_page>>
                  ELSE /\ repos' = extend(repos, resp.body)
                       /\ repos_page' = repos_page + 1
                       /\ pc' = "repos"
               /\ UNCHANGED <<run, username, config, profile, events, events_page,
                              now, cutoff_date, orgs, analysed, counted,
                              output, files>>

\* get_user_events before its loop: the cutoff is taken from the clock
get_user_events_begin ==
  /\ pc = "events_begin"
  /\ \E t \in Clock :
       /\ now' = t
       /\ cutoff_date' = t - timedelta(EVENT_DAYS)
  /\ pc' = "events"
  /\ UNCHANGED <<run, http, username, config, profile, repos, repos_page, events,
                 events_page, orgs, analysed, counted, output, files>>

RECURSIVE FirstTooOld_inclusive(_, _, _)
FirstTooOld_inclusive(data, cutoff, i) ==
  IF i > Len(data) THEN 0
  ELSE IF strptime(data[i].created_at) <= cutoff THEN i
  ELSE FirstTooOld_inclusive(data, cutoff, i + 1)

\* the position in data of the first event older than the cutoff, 0 if none
RECURSIVE FirstTooOld(_, _, _)
FirstTooOld(data, cutoff, i) ==
  IF i > Len(data) THEN 0
  ELSE IF strptime(data[i].created_at) < cutoff THEN i
  ELSE FirstTooOld(data, cutoff, i + 1)

page_limit_off_by_one(page) == page <= MAX_EVENT_PAGES + 1

\* while page <= 10
page_limit(page) == page <= MAX_EVENT_PAGES

\* one iteration of the loop of get_user_events: request the page, stop at
\* an empty one; keep its events up to the first one older than the cutoff
\* and stop there; otherwise go on while the next page is within the limit
get_user_events(Pages) ==
  /\ pc = "events"
  /\ page_limit(events_page)
  /\ \E resp \in Answers(Pages[events_page]) :
       /\ http' = Append(http, Request("events", events_page, resp))
       /\ IF raise_for_status(resp.status) THEN Abort
          ELSE LET old == FirstTooOld(resp.body, cutoff_date, 1) IN
               /\ IF resp.body = <<>>
                  THEN /\ pc' = "orgs"
                       /\ UNCHANGED <<events, events_page>>
                  ELSE IF old > 0
                  THEN /\ events' = events \o SubSeq(resp.body, 1, old - 1)
                       /\ pc' = "orgs"
                       /\ UNCHANGED events_page
                  ELSE /\ events' = extend(events, resp.body)
                       /\ events_page' = events_page + 1
                       /\ pc' = IF page_limit(events_page + 1)
                                THEN "events" ELSE "orgs"
               /\ UNCHANGED <<run, username, config, profile, repos, repos_page,
                              now, cutoff_date, orgs, analysed, counted,
                              output, files>>

get_organizations(Resps) ==
  /\ pc = "orgs"
  /\ \E resp \in Resps :
       /\ http' = Append(http, Request("orgs", 0, resp))
       /\ IF raise_for_status(resp.status) THEN Abort
          ELSE /\ orgs' = resp.body
               /\ pc' = "analyze_repos"
               /\ UNCHANGED <<run, username, config, profile, repos, repos_page,
                              events, events_page, now, cutoff_date,
                              analysed, counted, output, files>>

(***************************************************************************)
(* analyze_repos.                                                          *)
(***************************************************************************)
\* [r.get("license", {}).get("key") for r in repos if r.get("license")]
RECURSIVE LicenseKeys(_)
LicenseKeys(rs) ==
  IF rs = <<>> THEN <<>>
  ELSE (IF Head(rs).license = <<>> THEN <<>> ELSE <<Head(rs).license[1]>>)
         \o LicenseKeys(Tail(rs))

Occurrences(keys, k) == Cardinality({i \in 1..Len(keys) : keys[i] = k})

RECURSIVE MostCommon_last(_, _)
MostCommon_last(keys, i) ==
  LET j == Len(keys) + 1 - i IN
  IF \A k \in 1..Len(keys) : Occurrences(keys, keys[k]) <= Occurrences(keys, keys[j])
  THEN keys[j]
  ELSE MostCommon_last(keys, i + 1)

\* Counter(licenses).most_common(1)[0][0]: the first key, in order of first
\* occurrence, that no other key outnumbers
RECURSIVE MostCommon(_, _)
MostCommon(keys, i) ==
  IF \A j \in 1..Len(keys) : Occurrences(keys, keys[j]) <= Occurrences(keys, keys[i])
  THEN keys[i]
  ELSE MostCommon(keys, i + 1)

most_common_license(rs) ==
  LET licenses == LicenseKeys(rs) IN
  IF licenses = <<>> THEN "None" ELSE MostCommon(licenses, 1)

RECURSIVE SumField(_, _)
SumField(rs, f) == IF rs = <<>> THEN 0 ELSE Head(rs)[f] + SumField(Tail(rs), f)

ReposToProbe_all(rs) == rs

\* repos[:10]
ReposToProbe(rs) == SubSeq(rs, 1, Min(MAX_RELEASE_PROBES, Len(rs)))

ProbeContribution_any_status(outcome) ==
  IF outcome.kind = "response" THEN outcome.items ELSE 0

\* what one probe adds to releases_count: the number of items of a 200
\* answer; a timeout or another exception is swallowed by the bare except
ProbeContribution(outcome) ==
  IF outcome.kind = "response" /\ outcome.status = 200 THEN outcome.items ELSE 0

\* analyze_repos up to the probe loop
analyze_repos_begin ==
  /\ pc = "analyze_repos"
  /\ licenses_mode' = most_common_license(repos)
  /\ releases_count' = 0
  /\ probe_i' = 1
  /\ agg_started' = agg_started \cup {"license", "total_stars", "total_forks",
                                      "total_watchers", "disk_usage"}
  /\ pc' = "probe"
  /\ UNCHANGED <<run, http, fetched, repo_stats, activity_stats, counted,
                 output, files>>

\* one iteration of the probe loop
analyze_repos_probe ==
  /\ pc = "probe"
  /\ probe_i <= Len(ReposToProbe(repos))
  /\ LET url == repos[probe_i].releases_url
         outcome == ReleasesEndpoint(url) IN
       /\ http' = Append(http, [endpoint |-> "releases", page |-> probe_i,
                                status |-> outcome.status, link |-> NoLink,
                                body |-> [url |-> url, outcome |-> outcome]])
       /\ releases_count' = releases_count + ProbeContribution(outcome)
       /\ agg_started' = IF outcome.kind = "response" /\ outcome.status = 200
                         THEN agg_started \cup {"releases"} ELSE agg_started
  /\ probe_i' = probe_i + 1
  /\ pc' = "probe"
  /\ UNCHANGED <<run, fetched, licenses_mode, repo_stats, activity_stats,
                 counted, output, files>>

\* the end of the probe loop and the return of analyze_repos
analyze_repos_return ==
  /\ pc = "probe"
  /\ probe_i > Len(ReposToProbe(repos))
  /\ repo_stats' = [license |-> licenses_mode,
                    releases |-> releases_count,
                    packages |-> 0,
                    disk_usage |-> SumField(repos, "size"),
                    total_stars |-> SumField(repos, "stargazers_count"),
                    total_forks |-> SumField(repos, "forks_count"),
                    total_watchers |-> SumField(repos, "watchers_count")]
  /\ agg_started' = agg_started \cup {"releases"}
  /\ pc' = "analyze_events"
  /\ UNCHANGED <<run, http, fetched, licenses_mode, probe_i, releases_count,
                 activity_stats, counted, output, files>>

(***************************************************************************)
(* analyze_events.                                                         *)
(***************************************************************************)
\* e["type"] == "PushEvent"
is_push(e) == e.type = "PushEvent"

\* e["type"] == "PullRequestReviewEvent"
is_pr_review(e) == e.type = "PullRequestReviewEvent"

is_pr_opened_any_type(e) == e.action = "opened"

\* e["type"] == "PullRequestEvent" and payload action == "opened"
is_pr_opened(e) == e.type = "PullRequestEvent" /\ e.action = "opened"

\* daily_contributions[date] = daily_contributions.get(date, 0) + 1
Increment(dc, date) ==
  [d \in DOMAIN dc \cup {date} |->
     (IF d \in DOMAIN dc THEN dc[d] ELSE 0) + (IF d = date THEN 1 ELSE 0)]

RECURSIVE DailyContributions(_, _)
DailyContributions(es, dc) ==
  IF es = <<>> THEN dc
  ELSE DailyContributions(Tail(es), Increment(dc, DatePortion(Head(es).created_at)))

analyze_events_result(es) ==
  [commits |-> Len(SelectSeq(es, is_push)),
   prs_opened |-> Len(SelectSeq(es, is_pr_opened)),
   pr_reviews |-> Len(SelectSeq(es, is_pr_review)),
   daily_contributions |-> DailyContributions(es, <<>>)]

analyze_events_streaming ==
  /\ pc = "events"
  /\ events # <<>>
  /\ activity_stats' = analyze_events_result(events)
  /\ agg_started' = agg_started \cup {"commits", "prs_opened", "pr_reviews",
                                      "daily_contributions"}
  /\ UNCHANGED <<pc, run, http, fetched, licenses_mode, probe_i, releases_count,
                 repo_stats, counted, output, files>>

analyze_events ==
  /\ pc = "analyze_events"
  /\ activity_stats' = analyze_events_result(events)
  /\ agg_started' = agg_started \cup {"commits", "prs_opened", "pr_reviews",
                                      "daily_contributions"}
  /\ pc' = "starred"
  /\ UNCHANGED <<run, http, fetched, licenses_mode, probe_i, releases_count,
                 repo_stats, counted, output, files>>

(***************************************************************************)
(* The count functions.  A Link header is the sequence of its links        *)
(*   <url?k1=v1&k2=v2>; rel="r"                                           *)
(* each given by the query parameters of its URL, in order, and its rel.   *)
(***************************************************************************)
Link(params, rel) == [params |-> params, rel |-> rel]

\* int() of a string of digits
IntOf == ("1" :> 1) @@ ("2" :> 2) @@ ("5" :> 5)

\* \d+
IsDigits(v) == v \in DOMAIN IntOf

\* "last" in link_header
ContainsLast(link_header) ==
  \E i \in 1..Len(link_header) : link_header[i].rel = "last"

\* page=(\d+)>; rel="last" matches at a link whose rel is "last" and whose
\* URL ends in a parameter whose name ends in "page" and whose value is
\* made of digits
MatchesAt(link) ==
  /\ link.rel = "last"
  /\ link.params # <<>>
  /\ Last(link.params)[1] \in {"page", "per_page"}
  /\ IsDigits(Last(link.params)[2])

\* re.search: the leftmost match, 0 if there is none
RECURSIVE re_search(_, _)
re_search(link_header, i) ==
  IF i > Len(link_header) THEN 0
  ELSE IF MatchesAt(link_header[i]) THEN i
  ELSE re_search(link_header, i + 1)

\* the body shared by get_starred_count, get_watching_count, get_gists_count
count_from_response(resp) ==
  LET match == re_search(resp.link, 1) IN
  IF ContainsLast(resp.link) /\ match > 0
  THEN IntOf[Last(resp.link[match].params)[2]]
  ELSE Len(resp.body)

get_gists_count(resp) == count_from_response(resp)

GitHubLink ==
  << Link(<< <<"per_page", "1">>, <<"page", "2">> >>, "next"),
     Link(<< <<"per_page", "1">>, <<"page", "5">> >>, "last") >>

LinkHeaders ==
  { NoLink,
    GitHubLink,
    << Link(<< <<"page", "5">> >>, "last") >>,
    << Link(<< <<"page", "2">>, <<"per_page", "1">> >>, "next"),
       Link(<< <<"page", "5">>, <<"per_page", "1">> >>, "last") >>,
    << Link(<< <<"per_page", "1">>, <<"page", "x">> >>, "last") >>,
    << Link(<<>>, "last") >>,
    << Link(<< <<"per_page", "1">>, <<"page", "1">> >>, "first"),
       Link(<< <<"per_page", "1">>, <<"page", "4">> >>, "prev") >> }

\* per_page=1: the page holds no item or one
CountBodies == {<<>>, <<"item">>}

\* what a counted endpoint may answer
CountAnswers ==
  {Response(200, l, b) : l \in LinkHeaders, b \in CountBodies}
    \cup {Response(s, NoLink, <<>>) : s \in StatusCodes \ {200}}

FewCountAnswers ==
  {Response(200, GitHubLink, <<"item">>)}
    \cup {Response(s, NoLink, <<>>) : s \in StatusCodes \ {200}}

get_starred_count(Resps) ==
  /\ pc = "starred"
  /\ \E resp \in Resps :
       /\ http' = Append(http, Request("starred", 0, resp))
       /\ IF raise_for_status(resp.status) THEN Abort
          ELSE /\ starred' = count_from_response(resp)
               /\ pc' = "watching"
               /\ UNCHANGED <<run, fetched, analysed, watching, open_issues,
                              issue_comments, output, files>>

get_watching_count(Resps) ==
  /\ pc = "watching"
  /\ \E resp \in Resps :
       /\ http' = Append(http, Request("watching", 0, resp))
       /\ IF raise_for_status(resp.status) THEN Abort
          ELSE /\ watching' = count_from_response(resp)
               /\ pc' = "issues_open"
               /\ UNCHANGED <<run, fetched, analysed, starred, open_issues,
                              issue_comments, output, files>>

\* get_issues_stats, the search for the open issues of the author
get_issues_stats_open(Resps) ==
  /\ pc = "issues_open"
  /\ \E resp \in Resps :
       /\ http' = Append(http, Request("issues_open", 0, resp))
       /\ IF raise_for_status(resp.status) THEN Abort
          ELSE /\ open_issues' = resp.body.total_count
               /\ pc' = "issues_comments"
               /\ UNCHANGED <<run, fetched, analysed, starred, watching,
                              issue_comments, output, files>>

\* get_issues_stats, the search for the issues the user commented
get_issues_stats_comments(Resps) ==
  /\ pc = "issues_comments"
  /\ \E resp \in Resps :
       /\ http' = Append(http, Request("issue_comments", 0, resp))
       /\ IF raise_for_status(resp.status) THEN Abort
          ELSE /\ issue_comments' = resp.body.total_count
               /\ pc' = "build"
               /\ UNCHANGED <<run, fetched, analysed, starred, watching,
                              open_issues, output, files>>

(***************************************************************************)
(* The snapshot and its rendering.                                         *)
(***************************************************************************)
RECURSIVE SumValues(_)
SumValues(dc) ==
  IF DOMAIN dc = {} THEN 0
  ELSE LET d == CHOOSE x \in DOMAIN dc : TRUE IN
       dc[d] + SumValues([x \in DOMAIN dc \ {d} |-> dc[x]])

generate_contribution_summary_exclusive(daily_contributions) ==
  LET total == SumValues(daily_contributions) IN
  IF total = 0 THEN <<"No", "contributions", "in", "the", "last", "7", "days">>
  ELSE IF total < 5
  THEN <<ToString(total), "contributions", "-", "Light", "activity", "this", "week">>
  ELSE IF total < 15
  THEN <<ToString(total), "contributions", "-", "Moderate", "activity", "this", "week">>
  ELSE <<ToString(total), "contributions", "-", "High", "activity", "this", "week">>

\* the message is the sequence of its words
generate_contribution_summary(daily_contributions) ==
  LET total == SumValues(daily_contributions) IN
  IF total = 0 THEN <<"No", "contributions", "in", "the", "last", "7", "days">>
  ELSE IF total <= 5
  THEN <<ToString(total), "contributions", "-", "Light", "activity", "this", "week">>
  ELSE IF total <= 15
  THEN <<ToString(total), "contributions", "-", "Moderate", "activity", "this", "week">>
  ELSE <<ToString(total), "contributions", "-", "High", "activity", "this", "week">>

\* daily_contributions.get(date, 0)
GetCount(dc, date) == IF date \in DOMAIN dc THEN dc[date] ELSE 0

calendar_color_exclusive(count) ==
  IF count = 0 THEN "#ebedf0"
  ELSE IF count < 3 THEN "#9be9a8"
  ELSE IF count < 6 THEN "#40c463"
  ELSE IF count < 9 THEN "#30a14e"
  ELSE "#216e39"

calendar_color(count) ==
  IF count = 0 THEN "#ebedf0"
  ELSE IF count <= 3 THEN "#9be9a8"
  ELSE IF count <= 6 THEN "#40c463"
  ELSE IF count <= 9 THEN "#30a14e"
  ELSE "#216e39"

\* strftime("%a"): the day of the week of a date
DayName(date) == date % 7

\* the loop for i = 6 down to 0 of both calendars, oldest day first
calendar_cells(daily_contributions, now_utc) ==
  [k \in 1..7 |->
     LET date == strftime_date(now_utc - timedelta(7 - k)) IN
     [date |-> date, x |-> 550 + (k - 1) * 45, day_name |-> DayName(date),
      color |-> calendar_color(GetCount(daily_contributions, date))]]

\* the table of generate_contribution_calendar: one <td> per day
generate_contribution_calendar(daily_contributions, now_utc) ==
  [k \in 1..7 |->
     [color |-> calendar_cells(daily_contributions, now_utc)[k].color,
      day_name |-> calendar_cells(daily_contributions, now_utc)[k].day_name]]

\* the name and the three details of the profile block
profile_block(profile_cfg, prof) ==
  LET joined == dict_get(profile_cfg, "joined_date", TRUE)
      followers == dict_get(profile_cfg, "followers", TRUE)
      y_followers == IF joined THEN 58 + 25 ELSE 58
      y_hire == IF followers THEN y_followers + 25 ELSE y_followers IN
  (IF dict_get(profile_cfg, "name", TRUE)
   THEN <<[field |-> "name", x |-> 20, y |-> 40, value |-> prof.name]>>
   ELSE <<>>)
  \o (IF joined
      THEN <<[field |-> "joined_date", x |-> 20, y |-> 58,
              value |-> ToString(prof.created_at.date)]>>
      ELSE <<>>)
  \o (IF followers
      THEN <<[field |-> "followers", x |-> 20, y |-> y_followers,
              value |-> ToString(prof.followers)]>>
      ELSE <<>>)
  \o (IF dict_get(profile_cfg, "available_for_hire", TRUE)
      THEN <<[field |-> "available_for_hire", x |-> 20, y |-> y_hire,
              value |-> IF prof.hireable THEN "Yes" ELSE "No"]>>
      ELSE <<>>)

\* the text a field shows after its label; the disk usage is shown in
\* hundredths of a megabyte, to the nearest
FieldValue(field, prof, st) ==
  CASE field = "commits" -> ToString(st.activity.commits)
    [] field = "pr_reviews" -> ToString(st.activity.pr_reviews)
    [] field = "prs_opened" -> ToString(st.activity.prs_opened)
    [] field = "issues_open" -> ToString(st.issues.open)
    [] field = "issue_comments" -> ToString(st.issues.comments)
    [] field = "organizations" -> ToString(st.community.orgs)
    [] field = "following" -> ToString(prof.following)
    [] field = "starred" -> ToString(st.community.starred)
    [] field = "watching" -> ToString(st.community.watching)
    [] field = "total_repos" -> ToString(prof.public_repos)
    [] field = "license" -> st.repos.license
    [] field = "releases" -> ToString(st.repos.releases)
    [] field = "packages" -> ToString(st.repos.packages)
    [] field = "disk_usage" -> ToString((st.repos.disk_usage * 100 + 512) \div 1024)
    [] field = "stargazers" -> ToString(st.repos.total_stars)
    [] field = "forkers" -> ToString(st.repos.total_forks)
    [] field = "watchers" -> ToString(st.repos.total_watchers)

has_enabled_all(panel_cfg, fields) ==
  \A i \in 1..Len(fields) : dict_get(panel_cfg, fields[i], TRUE)

\* has_activity, has_community, has_repos, has_metadata: any([...])
has_enabled(panel_cfg, fields) ==
  \E i \in 1..Len(fields) : dict_get(panel_cfg, fields[i], TRUE)

\* the header of a panel, when the panel has an enabled field
panel_header(panel_cfg, panel) ==
  IF has_enabled(panel_cfg, PanelFields(panel))
  THEN <<[title |-> PanelTitle(panel), x |-> PanelX(panel), y |-> 190]>>
  ELSE <<>>

RECURSIVE panel_fields_static(_, _, _, _, _, _)
panel_fields_static(panel_cfg, fields, x, y_pos, prof, st) ==
  IF fields = <<>> THEN <<>>
  ELSE (IF dict_get(panel_cfg, Head(fields), TRUE)
        THEN <<[field |-> Head(fields), x |-> x, y |-> y_pos,
                text_x |-> x + 18, text_y |-> y_pos + 10,
                value |-> FieldValue(Head(fields), prof, st)]>>
        ELSE <<>>)
       \o panel_fields_static(panel_cfg, Tail(fields), x, y_pos + 25, prof, st)

\* the fields of one panel: an enabled field is put at y_pos, its icon at x
\* and its text at x + 18, and moves y_pos down by 25
RECURSIVE panel_fields(_, _, _, _, _, _)
panel_fields(panel_cfg, fields, x, y_pos, prof, st) ==
  IF fields = <<>> THEN <<>>
  ELSE IF dict_get(panel_cfg, Head(fields), TRUE)
  THEN <<[field |-> Head(fields), x |-> x, y |-> y_pos,
          text_x |-> x + 18, text_y |-> y_pos + 10,
          value |-> FieldValue(Head(fields), prof, st)]>>
       \o panel_fields(panel_cfg, Tail(fields), x, y_pos + 25, prof, st)
  ELSE panel_fields(panel_cfg, Tail(fields), x, y_pos, prof, st)

EnabledCount(panel_cfg, fields) ==
  Cardinality({i \in 1..Len(fields) : dict_get(panel_cfg, fields[i], TRUE)})

panel_start_y_carried(cfg, k) ==
  IF k = 1 THEN 210
  ELSE 210 + 25 * EnabledCount(dict_get(cfg, Panels[k - 1], EmptyDict),
                               PanelFields(Panels[k - 1]))

\* y_pos = 210 before the first field of the k-th panel
panel_start_y(cfg, k) == 210

\* the graphic: the elements the renderer emits, with their coordinates
generate_profile_section(prof, st, cfg, now_utc) ==
  LET calendar_on == dict_get(dict_get(cfg, "calendar", EmptyDict), "enabled", TRUE)
      header(k) == panel_header(dict_get(cfg, Panels[k], EmptyDict), Panels[k])
      panel(k) == panel_fields(dict_get(cfg, Panels[k], EmptyDict),
                               PanelFields(Panels[k]), PanelX(Panels[k]),
                               panel_start_y(cfg, k), prof, st)
  IN
  [profile |-> profile_block(dict_get(cfg, "profile", EmptyDict), prof),
   calendar_header |-> IF calendar_on
                       THEN <<[title |-> "Last 7 Days", x |-> 550, y |-> 40]>>
                       ELSE <<>>,
   calendar |-> IF calendar_on
                THEN calendar_cells(dict_get(st, "daily_contributions", EmptyDict),
                                    now_utc)
                ELSE <<>>,
   summary |-> st.summary,
   headers |-> <<header(1), header(2), header(3), header(4)>>,
   panels |-> <<panel(1), panel(2), panel(3), panel(4)>>]

\* the tail of generate_stats: the snapshot is built, then rendered; the
\* renderer reads the clock only when the calendar is enabled
generate_stats_build ==
  /\ pc = "build"
  /\ stats' = [activity |-> [commits |-> activity_stats.commits,
                             pr_reviews |-> activity_stats.pr_reviews,
                             prs_opened |-> activity_stats.prs_opened],
               issues |-> [open |-> open_issues, comments |-> issue_comments],
               community |-> [orgs |-> Len(orgs), starred |-> starred,
                              watching |-> watching],
               repos |-> repo_stats,
               daily_contributions |-> activity_stats.daily_contributions,
               summary |-> generate_contribution_summary(
                             activity_stats.daily_contributions)]
  /\ IF dict_get(dict_get(config, "calendar", EmptyDict), "enabled", TRUE)
     THEN today' \in {t \in Clock : t >= now}
     ELSE today' = today
  /\ svg_content' = generate_profile_section(profile, stats', config, today')
  /\ agg_started' = agg_started \cup {"orgs", "starred", "watching",
                                      "issues_open", "issue_comments", "summary"}
  /\ pc' = "update_readme"
  /\ UNCHANGED <<run, http, fetched, licenses_mode, probe_i, releases_count,
                 repo_stats, activity_stats, counted, files>>

(***************************************************************************)
(* update_readme.                                                          *)
(***************************************************************************)
\* the one line of the reference document
readme_content(user) == [img |-> user]

changed_always(file, content) == TRUE

changed_only_when_absent(file, content) == file = <<>>

\* svg_changed / readme_changed: True unless the file exists and holds content
changed(file, content) == ~(file # <<>> /\ file[1] = content)

update_readme ==
  /\ pc = "update_readme"
  /\ LET svg_changed == changed(svg_file, svg_content)
         readme_changed == changed(readme_file, readme_content(username)) IN
       /\ svg_file' = IF svg_changed THEN <<svg_content>> ELSE svg_file
       /\ readme_file' = IF readme_changed \/ readme_file = <<>>
                         THEN <<readme_content(username)>> ELSE readme_file
       /\ calls' = Append(calls,
            [run |-> run,
             svg_content |-> svg_content,
             readme_content |-> readme_content(username),
             svg_before |-> svg_file,
             readme_before |-> readme_file,
             svg_written |-> svg_changed,
             readme_written |-> readme_changed \/ readme_file = <<>>])
  /\ pc' = "done"
  /\ UNCHANGED <<run, http, fetched, analysed, counted, output, svg_at_start,
                 readme_at_start, config_file>>

\* the scheduler starts the job again
next_run ==
  /\ pc \in {"done", "aborted"}
  /\ run < MaxRuns
  /\ run' = run + 1
  /\ pc' = "main"
  /\ http' = <<>>
  /\ username' = ""
  /\ config' = NoConfig
  /\ profile' = <<>>
  /\ repos' = <<>>
  /\ repos_page' = 1
  /\ events' = <<>>
  /\ events_page' = 1
  /\ now' = 0
  /\ cutoff_date' = 0
  /\ orgs' = <<>>
  /\ licenses_mode' = ""
  /\ probe_i' = 1
  /\ releases_count' = 0
  /\ repo_stats' = <<>>
  /\ activity_stats' = <<>>
  /\ starred' = 0
  /\ watching' = 0
  /\ open_issues' = 0
  /\ issue_comments' = 0
  /\ stats' = NoStats
  /\ svg_content' = NoSvg
  /\ today' = 0
  /\ agg_started' = {}
  /\ svg_at_start' = svg_file
  /\ readme_at_start' = readme_file
  /\ UNCHANGED <<svg_file, readme_file, calls, config_file>>

(***************************************************************************)
(* The job, run by run: a user with few repositories and events.           *)
(***************************************************************************)
StaleSvg == [stale |-> TRUE]

StaleReadme == [img |-> "someone-else"]

Init ==
  /\ pc = "main"
  /\ run = 1
  /\ FreshRun
  /\ svg_file \in {<<>>, <<StaleSvg>>}
  /\ readme_file \in {<<>>, <<StaleReadme>>, <<readme_content("octocat")>>}
  /\ svg_at_start = svg_file
  /\ readme_at_start = readme_file
  /\ calls = <<>>
  /\ config_file = <<>>

Next ==
  \/ main
  \/ get_authenticated_user(Answers(UserBodies))
  \/ get_user_profile(Answers(ProfileBodies))
  \/ get_user_repos(FewRepoPages)
  \/ get_user_events_begin
  \/ get_user_events(FewEventPages)
  \/ get_organizations(Answers(FewOrgBodies))
  \/ analyze_repos_begin
  \/ analyze_repos_probe
  \/ analyze_repos_return
  \/ analyze_events
  \/ get_starred_count(FewCountAnswers)
  \/ get_watching_count(FewCountAnswers)
  \/ get_issues_stats_open(Answers(FewSearchBodies))
  \/ get_issues_stats_comments(Answers(FewSearchBodies))
  \/ generate_stats_build
  \/ update_readme
  \/ next_run

Spec == Init /\ [][Next]_vars

(***************************************************************************)
(* Properties of the whole run.                                            *)
(***************************************************************************)
\* some required request of this run was answered with another status than 2xx
RequiredRequestFailed ==
  \E i \in 1..Len(http) :
    /\ http[i].endpoint # "releases"
    /\ ~(200 <= http[i].status /\ http[i].status <= 299)

\* C1: when a required request of a run (user lookup, profile, a
\* repositories page, an events page, organizations, starred or watching
\* count, either issue search) is answered with a non-2xx status, the run
\* has aborted and both files hold exactly the content the run found.
C1_FailedRequestAbortsBeforeAnyWrite ==
  RequiredRequestFailed =>
    /\ pc = "aborted"
    /\ svg_file = svg_at_start
    /\ readme_file = readme_at_start

\* a second run fails at its last required request, after the first run
\* has written both files
C1_Witness ==
  /\ run = 2
  /\ pc = "aborted"
  /\ RequiredRequestFailed
  /\ Last(http).endpoint = "issue_comments"
  /\ Len(calls) = 1
  /\ svg_file # <<>>
  /\ readme_file # <<>>

\* the state of a file after call i
SvgAfter(i) == IF i < Len(calls) THEN calls[i + 1].svg_before ELSE svg_file

ReadmeAfter(i) == IF i < Len(calls) THEN calls[i + 1].readme_before ELSE readme_file

\* C2: update_readme writes the graphic file exactly when it was absent or
\* held other content than the new one, and likewise, independently, the
\* reference document; a file that is not written keeps its content and a
\* written one holds the new content.
C2_WriteOnlyOnChange ==
  \A i \in 1..Len(calls) :
    LET c == calls[i] IN
    /\ c.svg_written <=>
         (c.svg_before = <<>> \/ c.svg_before[1] # c.svg_content)
    /\ c.readme_written <=>
         (c.readme_before = <<>> \/ c.readme_before[1] # c.readme_content)
    /\ SvgAfter(i) = IF c.svg_written THEN <<c.svg_content>> ELSE c.svg_before
    /\ ReadmeAfter(i) = IF c.readme_written THEN <<c.readme_content>>
                        ELSE c.readme_before

\* one call that writes the graphic and leaves the document alone, and a
\* later call that writes neither
C2_Witness ==
  /\ Len(calls) = 2
  /\ calls[1].svg_written
  /\ ~calls[1].readme_written
  /\ ~calls[2].svg_written
  /\ ~calls[2].readme_written

SameContent(i) ==
  /\ calls[i].svg_content = calls[i + 1].svg_content
  /\ calls[i].readme_content = calls[i + 1].readme_content

\* C3 as stated: two calls in a row with identical content perform exactly
\* one write per file, on the first call, and the second call writes
\* nothing and leaves both files unchanged.
C3_ExactlyOneWrite ==
  \A i \in 1..(Len(calls) - 1) :
    SameContent(i) =>
      /\ calls[i].svg_written
      /\ calls[i].readme_written
      /\ ~calls[i + 1].svg_written
      /\ ~calls[i + 1].readme_written
      /\ SvgAfter(i + 1) = SvgAfter(i)
      /\ ReadmeAfter(i + 1) = ReadmeAfter(i)

\* C3, amended: of two calls in a row with identical content the second
\* writes nothing and leaves both files unchanged, so that each file is
\* written at most once, by the first call, and by it only when the file
\* was absent or held other content before.
C3_AtMostOneWrite ==
  \A i \in 1..(Len(calls) - 1) :
    SameContent(i) =>
      /\ ~calls[i + 1].svg_written
      /\ ~calls[i + 1].readme_written
      /\ SvgAfter(i + 1) = SvgAfter(i)
      /\ ReadmeAfter(i + 1) = ReadmeAfter(i)
      /\ SvgAfter(i + 1) = <<calls[i].svg_content>>
      /\ ReadmeAfter(i + 1) = <<calls[i].readme_content>>
      /\ calls[i].svg_written <=> calls[i].svg_before # SvgAfter(i)
      /\ calls[i].readme_written <=> calls[i].readme_before # ReadmeAfter(i)

\* two calls with identical content, the first of which wrote both files
C3_Witness ==
  /\ Len(calls) = 2
  /\ SameContent(1)
  /\ calls[1].svg_written
  /\ calls[1].readme_written
  /\ pc = "done"

\* the metrics a request to an endpoint feeds
Feeds(endpoint) ==
  CASE endpoint = "repos" -> {"license", "total_stars", "total_forks",
                              "total_watchers", "disk_usage", "releases"}
    [] endpoint = "releases" -> {"releases"}
    [] endpoint = "events" -> {"commits", "prs_opened", "pr_reviews",
                               "daily_contributions", "summary"}
    [] endpoint = "orgs" -> {"orgs"}
    [] endpoint \in {"starred", "watching", "issues_open", "issue_comments"}
         -> {endpoint}
    [] OTHER -> {}

\* this step issues a request that feeds a metric of Metrics whose
\* aggregation has already begun
FetchAfterAggregation(Metrics) ==
  /\ Len(http') = Len(http) + 1
  /\ Feeds(Last(http').endpoint) \cap agg_started \cap Metrics # {}

AllMetrics ==
  {"license", "total_stars", "total_forks", "total_watchers", "disk_usage",
   "releases", "commits", "prs_opened", "pr_reviews", "daily_contributions",
   "summary", "orgs", "starred", "watching", "issues_open", "issue_comments"}

\* nothing is rendered or written before the snapshot is built
NothingEmittedBeforeSnapshot ==
  (svg_content # NoSvg \/ svg_file # svg_at_start \/ readme_file # readme_at_start)
    => /\ stats # NoStats
       /\ pc \in {"update_readme", "done"}

\* C9 as stated: no request that feeds a metric is issued once the
\* aggregation of that metric has begun, and nothing is rendered or
\* written before the snapshot is built.
C9_AggregationAfterAllFetches ==
  /\ [][~FetchAfterAggregation(AllMetrics)]_vars
  /\ []NothingEmittedBeforeSnapshot

\* C9, amended: the same for every metric but the release total, which
\* analyze_repos accumulates probe by probe, adding the count of one probe
\* before it sends the next.
C9_AggregationAfterFetchesButReleases ==
  /\ [][~FetchAfterAggregation(AllMetrics \ {"releases"})]_vars
  /\ []NothingEmittedBeforeSnapshot

\* a run that fetched repositories and an event, aggregated every metric
\* and wrote its files
C9_Witness ==
  /\ pc = "done"
  /\ agg_started = AllMetrics
  /\ Len(repos) = 2
  /\ Len(events) = 1
  /\ svg_file = <<svg_content>>
  /\ svg_file # svg_at_start

(***************************************************************************)
(* The run from get_user_repos on, for every repository listing the        *)
(* server may give, of a user without events.                              *)
(***************************************************************************)
TheUser == AnyOf(UserBodies)

TheProfile == AnyOf(ProfileBodies)

InitRepos ==
  /\ pc = "repos"
  /\ run = 1
  /\ http = << Request("user", 0, Response(200, NoLink, TheUser)),
               Request("profile", 0, Response(200, NoLink, TheProfile)) >>
  /\ username = TheUser.login
  /\ config = _default_config
  /\ config_file = <<>>
  /\ today = 0
  /\ profile = TheProfile
  /\ repos = <<>>
  /\ repos_page = 1
  /\ events = <<>>
  /\ events_page = 1
  /\ now = 0
  /\ cutoff_date = 0
  /\ orgs = <<>>
  /\ licenses_mode = ""
  /\ probe_i = 1
  /\ releases_count = 0
  /\ repo_stats = <<>>
  /\ activity_stats = <<>>
  /\ starred = 0
  /\ watching = 0
  /\ open_issues = 0
  /\ issue_comments = 0
  /\ stats = NoStats
  /\ svg_content = NoSvg
  /\ agg_started = {}
  /\ svg_file = <<>>
  /\ readme_file = <<>>
  /\ svg_at_start = <<>>
  /\ readme_at_start = <<>>
  /\ calls = <<>>

NextRepos ==
  \/ get_user_repos(RepoPages)
  \/ get_user_events_begin
  \/ get_user_events(NoEventPages)
  \/ get_organizations(Answers(FewOrgBodies))
  \/ analyze_repos_begin
  \/ analyze_repos_probe
  \/ analyze_repos_return

SpecRepos == InitRepos /\ [][NextRepos]_vars

ReposRequests == RequestsTo("repos")

Bodies(reqs) == [i \in 1..Len(reqs) |-> reqs[i].body]

\* get_user_repos has returned
ReposReturned == pc \notin {"repos", "aborted"} \/ (pc = "aborted" /\ Last(http).endpoint # "repos")

\* C6: get_user_repos requests the pages 1, 2, 3, ... in order, issues no
\* request after the first empty page, and returns the items of all the
\* pages before that one, in page order, none dropped.
C6_ReposAreAllPagesBeforeFirstEmpty ==
  /\ \A i \in 1..Len(ReposRequests) :
       /\ ReposRequests[i].page = i
       /\ i < Len(ReposRequests) => ReposRequests[i].body # <<>>
  /\ ReposReturned =>
       /\ Last(ReposRequests).body = <<>>
       /\ repos = Concat(Bodies(ReposRequests))

\* three requests, two non-empty pages of different lengths
C6_Witness ==
  /\ pc = "events_begin"
  /\ Len(ReposRequests) = 3
  /\ Len(ReposRequests[1].body) = BigPageLen
  /\ Len(ReposRequests[2].body) = 1
  /\ Len(repos) = BigPageLen + 1

ReleaseProbes == RequestsTo("releases")

\* what the answers to the probes add up to: the items of the 200 answers
SuccessfulItems ==
  SumSeq([i \in 1..Len(ReleaseProbes) |->
            LET o == ReleaseProbes[i].body.outcome IN
            IF o.kind = "response" /\ o.status = 200 THEN o.items ELSE 0])

\* C8: analyze_repos probes the first 10 repositories in fetch order and
\* no other; a probe that times out, raises or is answered with another
\* status than 200 adds nothing and does not abort the run; the release
\* total returned is the sum of the item counts of the successful probes.
C8_ProbesFirstTenAndToleratesFailures ==
  /\ \A i \in 1..Len(ReleaseProbes) :
       /\ i <= 10
       /\ ReleaseProbes[i].body.url = repos[i].releases_url
  /\ pc = "probe" => releases_count = SuccessfulItems
  /\ pc = "aborted" => Last(http).endpoint # "releases"
  /\ repo_stats # <<>> =>
       /\ Len(ReleaseProbes) = Min(10, Len(repos))
       /\ repo_stats.releases = SuccessfulItems

\* more than 10 repositories, among the probes a timeout and a 404, and
\* analyze_repos has returned
C8_Witness ==
  /\ pc = "analyze_events"
  /\ Len(repos) > 10
  /\ Len(ReleaseProbes) = 10
  /\ \E i \in 1..9 : /\ ReleaseProbes[i].body.outcome.kind = "timeout"
                     /\ ReleaseProbes[i + 1].body.outcome.status = 404
  /\ repo_stats.releases > 0

(***************************************************************************)
(* The run from get_user_events on, for every event feed the server may    *)
(* give, of a user without repositories.                                   *)
(***************************************************************************)
InitEvents ==
  /\ pc = "events_begin"
  /\ run = 1
  /\ http = << Request("user", 0, Response(200, NoLink, TheUser)),
               Request("profile", 0, Response(200, NoLink, TheProfile)),
               Request("repos", 1, Response(200, NoLink, <<>>)) >>
  /\ username = TheUser.login
  /\ config = _default_config
  /\ config_file = <<>>
  /\ today = 0
  /\ profile = TheProfile
  /\ repos = <<>>
  /\ repos_page = 1
  /\ events = <<>>
  /\ events_page = 1
  /\ now = 0
  /\ cutoff_date = 0
  /\ orgs = <<>>
  /\ licenses_mode = ""
  /\ probe_i = 1
  /\ releases_count = 0
  /\ repo_stats = <<>>
  /\ activity_stats = <<>>
  /\ starred = 0
  /\ watching = 0
  /\ open_issues = 0
  /\ issue_comments = 0
  /\ stats = NoStats
  /\ svg_content = NoSvg
  /\ agg_started = {}
  /\ svg_file = <<>>
  /\ readme_file = <<>>
  /\ svg_at_start = <<>>
  /\ readme_at_start = <<>>
  /\ calls = <<>>

NextEvents ==
  \/ get_user_events_begin
  \/ get_user_events(EventPages)
  \/ get_organizations(Answers(FewOrgBodies))
  \/ analyze_repos_begin
  \/ analyze_repos_return
  \/ analyze_events

SpecEvents == InitEvents /\ [][NextEvents]_vars

EventsRequests == RequestsTo("events")

\* the events of the fetched pages, one after the other
EventStream == Concat(Bodies(EventsRequests))

\* older than the cutoff: before now minus EVENT_DAYS days
TooOld(e) ==
  e.created_at.date * TicksPerDay + e.created_at.time < now - EVENT_DAYS * TicksPerDay

\* get_user_events has returned
EventsReturned ==
  \/ pc \in {"orgs", "analyze_repos", "probe", "analyze_events", "starred"}
  \/ pc = "aborted" /\ Last(http).endpoint # "events"

\* C4: get_user_events returns exactly the events that precede the first
\* event older than the cutoff in the stream of the fetched pages, in their
\* order (all of them when there is none), and the page that holds that
\* event is the last one requested.
C4_EventsBeforeFirstTooOld ==
  EventsReturned =>
    /\ Len(events) <= Len(EventStream)
    /\ events = SubSeq(EventStream, 1, Len(events))
    /\ \A i \in 1..Len(events) : ~TooOld(EventStream[i])
    /\ Len(events) < Len(EventStream) =>
         /\ TooOld(EventStream[Len(events) + 1])
         /\ Len(events) + 1 >
              Len(EventStream) - Len(Last(EventsRequests).body)

\* the events dated day0, day0-1, day0-8: the first two are returned
C4_Witness ==
  /\ pc = "orgs"
  /\ Len(EventStream) >= 3
  /\ EventStream[1].created_at.date = Day0
  /\ EventStream[2].created_at.date = Day0 - 1
  /\ EventStream[3].created_at.date = Day0 - 8
  /\ events = SubSeq(EventStream, 1, 2)

\* C5: get_user_events requests the pages 1, 2, ... in order, never more
\* than 10 of them, none after an empty page, and after the 10th it has
\* returned whatever that page held.
C5_AtMostTenEventPages ==
  /\ Len(EventsRequests) <= 10
  /\ \A i \in 1..Len(EventsRequests) :
       /\ EventsRequests[i].page = i
       /\ i < Len(EventsRequests) => EventsRequests[i].body # <<>>
  /\ Len(EventsRequests) = 10 => pc # "events"

\* ten pages, none empty and none with an old event: the fetch has returned
C5_Witness ==
  /\ pc = "orgs"
  /\ Len(EventsRequests) = 10
  /\ Last(EventsRequests).body # <<>>
  /\ events = EventStream
  /\ Len(events) >= 10

\* C10: analyze_events returns commits = the number of PushEvent events,
\* prs_opened = the number of PullRequestEvent events with action "opened",
\* pr_reviews = the number of PullRequestReviewEvent events, and a
\* daily_contributions map whose keys are the dates of the events, each
\* with the number of events of that date, so that the counts sum to the
\* number of events.
C10_AnalyzeEventsCounts ==
  activity_stats # <<>> =>
    LET dc == activity_stats.daily_contributions IN
    /\ activity_stats.commits =
         Cardinality({i \in 1..Len(events) : events[i].type = "PushEvent"})
    /\ activity_stats.prs_opened =
         Cardinality({i \in 1..Len(events) : /\ events[i].type = "PullRequestEvent"
                                               /\ events[i].action = "opened"})
    /\ activity_stats.pr_reviews =
         Cardinality({i \in 1..Len(events) : events[i].type = "PullRequestReviewEvent"})
    /\ DOMAIN dc = {events[i].created_at.date : i \in 1..Len(events)}
    /\ \A d \in DOMAIN dc :
         dc[d] = Cardinality({i \in 1..Len(events) : events[i].created_at.date = d})
    /\ SumValues(dc) = Len(events)

\* events of several types and dates, among them an opened issue and an
\* opened pull request, have been analyzed
C10_Witness ==
  /\ pc = "starred"
  /\ Len(events) = 4
  /\ activity_stats.prs_opened = 1
  /\ activity_stats.commits = 2
  /\ \E i \in 1..4 : events[i].type = "IssuesEvent" /\ events[i].action = "opened"
  /\ Cardinality(DOMAIN activity_stats.daily_contributions) = 3

(***************************************************************************)
(* The run from get_starred_count on, for every answer the counted         *)
(* endpoints may give, of a user without repositories and events.          *)
(***************************************************************************)
InitCounts ==
  /\ pc = "starred"
  /\ run = 1
  /\ http = << Request("user", 0, Response(200, NoLink, TheUser)),
               Request("profile", 0, Response(200, NoLink, TheProfile)),
               Request("repos", 1, Response(200, NoLink, <<>>)),
               Request("events", 1, Response(200, NoLink, <<>>)),
               Request("orgs", 0, Response(200, NoLink, AnyOf(FewOrgBodies))) >>
  /\ username = TheUser.login
  /\ config = _default_config
  /\ config_file = <<>>
  /\ today = 0
  /\ profile = TheProfile
  /\ repos = <<>>
  /\ repos_page = 1
  /\ events = <<>>
  /\ events_page = 1
  /\ now = Day0 * TicksPerDay
  /\ cutoff_date = Day0 * TicksPerDay - timedelta(EVENT_DAYS)
  /\ orgs = AnyOf(FewOrgBodies)
  /\ licenses_mode = "None"
  /\ probe_i = 1
  /\ releases_count = 0
  /\ repo_stats = [license |-> "None", releases |-> 0, packages |-> 0,
                   disk_usage |-> 0, total_stars |-> 0, total_forks |-> 0,
                   total_watchers |-> 0]
  /\ activity_stats = analyze_events_result(<<>>)
  /\ starred = 0
  /\ watching = 0
  /\ open_issues = 0
  /\ issue_comments = 0
  /\ stats = NoStats
  /\ svg_content = NoSvg
  /\ agg_started = {"license", "total_stars", "total_forks", "total_watchers",
                    "disk_usage", "releases", "commits", "prs_opened",
                    "pr_reviews", "daily_contributions"}
  /\ svg_file = <<>>
  /\ readme_file = <<>>
  /\ svg_at_start = <<>>
  /\ readme_at_start = <<>>
  /\ calls = <<>>

NextCounts ==
  \/ get_starred_count(CountAnswers)
  \/ get_watching_count(CountAnswers)
  \/ get_issues_stats_open(Answers(SearchBodies))
  \/ get_issues_stats_comments(Answers(SearchBodies))

SpecCounts == InitCounts /\ [][NextCounts]_vars

\* the last page numbers a Link header advertises: the values of the page
\* parameter of its links with rel="last"
AdvertisedLastPages(link_header) ==
  {IntOf[link_header[i].params[j][2]] :
     <<i, j>> \in {<<i, j>> \in (1..Len(link_header)) \X (1..2) :
                     /\ link_header[i].rel = "last"
                     /\ j <= Len(link_header[i].params)
                     /\ link_header[i].params[j][1] = "page"
                     /\ IsDigits(link_header[i].params[j][2])}}

\* the count the claim expects for an answer
CountIsAsAdvertised(count, link_header, body) ==
  IF AdvertisedLastPages(link_header) # {}
  THEN count \in AdvertisedLastPages(link_header)
  ELSE count = Len(body)

\* C7: each count function makes one request and returns N whenever the
\* Link header of the answer advertises last page N, whatever the number
\* of items of the page, and the number of items of the page when the
\* header is absent or has no last-page number.
C7_CountIsLastPageOrItems ==
  /\ Len(RequestsTo("starred")) <= 1
  /\ Len(RequestsTo("watching")) <= 1
  /\ pc \in {"watching", "issues_open", "issues_comments", "build"} =>
       LET r == RequestsTo("starred")[1] IN
       CountIsAsAdvertised(starred, r.link, r.body)
  /\ pc \in {"issues_open", "issues_comments", "build"} =>
       LET r == RequestsTo("watching")[1] IN
       CountIsAsAdvertised(watching, r.link, r.body)

(***************************************************************************)
(* The summary and the calendar: a busy user, whose one page of events     *)
(* holds up to MaxBurst events of a day; the calendar is enabled or not.   *)
(***************************************************************************)
CalendarOff == [calendar |-> [enabled |-> FALSE]]

InitSummary ==
  /\ pc = "events_begin"
  /\ run = 1
  /\ http = << Request("user", 0, Response(200, NoLink, TheUser)),
               Request("profile", 0, Response(200, NoLink, TheProfile)),
               Request("repos", 1, Response(200, NoLink, <<>>)) >>
  /\ username = TheUser.login
  /\ config_file \in {<<>>, <<CalendarOff>>}
  /\ config = _load_config(config_file)
  /\ today = 0
  /\ profile = TheProfile
  /\ repos = <<>>
  /\ repos_page = 1
  /\ events = <<>>
  /\ events_page = 1
  /\ now = 0
  /\ cutoff_date = 0
  /\ orgs = <<>>
  /\ licenses_mode = ""
  /\ probe_i = 1
  /\ releases_count = 0
  /\ repo_stats = <<>>
  /\ activity_stats = <<>>
  /\ starred = 0
  /\ watching = 0
  /\ open_issues = 0
  /\ issue_comments = 0
  /\ stats = NoStats
  /\ svg_content = NoSvg
  /\ agg_started = {}
  /\ svg_file = <<>>
  /\ readme_file = <<>>
  /\ svg_at_start = <<>>
  /\ readme_at_start = <<>>
  /\ calls = <<>>

NextSummary ==
  \/ get_user_events_begin
  \/ get_user_events(BurstPages)
  \/ get_organizations(Answers(FewOrgBodies))
  \/ analyze_repos_begin
  \/ analyze_repos_return
  \/ analyze_events
  \/ get_starred_count(FewCountAnswers)
  \/ get_watching_count(FewCountAnswers)
  \/ get_issues_stats_open(Answers(FewSearchBodies))
  \/ get_issues_stats_comments(Answers(FewSearchBodies))
  \/ generate_stats_build
  \/ update_readme

SpecSummary == InitSummary /\ [][NextSummary]_vars

\* the number of events the fetch kept
KeptTotal == Len(events)

\* the word of the message that names the level of activity
SummaryLevel == IF Len(stats.summary) >= 4 THEN stats.summary[4] ELSE ""

\* C11: once the snapshot is built, its summary message is chosen by the sum
\* of the daily counts: sum 0 gives the no-contributions message, 1 to 5 the
\* light, 6 to 15 the moderate, 16 and more the high activity message; the
\* graphic shows that message.
C11_SummaryBuckets ==
  stats # NoStats =>
    /\ SumValues(stats.daily_contributions) = KeptTotal
    /\ KeptTotal = 0 =>
         stats.summary = <<"No", "contributions", "in", "the", "last", "7", "days">>
    /\ KeptTotal \in 1..5 => SummaryLevel = "Light"
    /\ KeptTotal \in 6..15 => SummaryLevel = "Moderate"
    /\ KeptTotal >= 16 => SummaryLevel = "High"
    /\ svg_content # NoSvg => svg_content.summary = stats.summary

C11_Witness ==
  /\ pc = "done"
  /\ KeptTotal = 15
  /\ Last(calls).svg_content.summary[4] = "Moderate"

\* C12: once the snapshot is built, some word of its summary message is the
\* sum of the daily counts written as a number, whatever the sum is, zero
\* included.
C12_MessageNamesSum ==
  stats # NoStats =>
    \E i \in 1..Len(stats.summary) :
      stats.summary[i] = ToString(SumValues(stats.daily_contributions))

\* the days the calendar of a render at instant t shows, oldest first
ShownDay(t, k) == strftime_date(t) - 7 + k

\* the kept events of a day
CountOn(date) ==
  Cardinality({i \in 1..Len(events) : DatePortion(events[i].created_at) = date})

Tier(count) ==
  CASE count = 0 -> "#ebedf0"
    [] count \in 1..3 -> "#9be9a8"
    [] count \in 4..6 -> "#40c463"
    [] count \in 7..9 -> "#30a14e"
    [] count >= 10 -> "#216e39"

CalendarEnabled ==
  dict_get(dict_get(config, "calendar", EmptyDict), "enabled", TRUE)

\* C13: the table of generate_contribution_calendar has exactly 7 cells at
\* every instant, and the calendar of the graphic, when it is enabled, has
\* exactly 7 cells, left to right; the k-th cell is the day today-7+k and
\* its colour is the tier of that day's count alone: 0, 1 to 3, 4 to 6,
\* 7 to 9, 10 or more.
C13_CalendarSevenCells ==
  svg_content # NoSvg =>
    /\ \A t \in Clock :
         LET table == generate_contribution_calendar(stats.daily_contributions, t) IN
         /\ Len(table) = 7
         /\ \A k \in 1..7 : table[k].color = Tier(CountOn(ShownDay(t, k)))
    /\ CalendarEnabled =>
         /\ Len(svg_content.calendar) = 7
         /\ \A k \in 1..7 :
              /\ svg_content.calendar[k].date = ShownDay(today, k)
              /\ svg_content.calendar[k].color = Tier(CountOn(ShownDay(today, k)))
              /\ k > 1 => svg_content.calendar[k].x > svg_content.calendar[k - 1].x

C13_Witness ==
  /\ pc = "done"
  /\ CalendarEnabled
  /\ svg_file = <<svg_content>>
  /\ svg_content.calendar[7].color = "#216e39"
  /\ svg_content.calendar[1].color = "#30a14e"
  /\ svg_content.calendar[2].color = "#ebedf0"

\* the number the summary message names, 0 for the no-contributions message
SummaryTotal ==
  IF stats.summary[1] = "No" THEN 0
  ELSE CHOOSE n \in 0..(2 * MaxBurst + 1) : ToString(n) = stats.summary[1]

\* C18: once the graphic with its calendar is rendered, the total the summary
\* names is the sum of the counts of the seven days the calendar shows, and
\* every event the fetch kept falls on one of those days.
C18_TotalIsSumOfShownDays ==
  (svg_content # NoSvg /\ CalendarEnabled) =>
    LET shown == {ShownDay(today, k) : k \in 1..7} IN
    /\ \A i \in 1..Len(events) : DatePortion(events[i].created_at) \in shown
    /\ SummaryTotal =
         Cardinality({i \in 1..Len(events) :
                        DatePortion(events[i].created_at) \in shown})
(***************************************************************************)
(* The license analyze_repos reports, under SpecRepos.                     *)
(***************************************************************************)
\* the positions of the repositories that declare a license
Declaring == {i \in 1..Len(repos) : repos[i].license # <<>>}

\* C14: when a repository declares a license, the license analyze_repos
\* reports is a key no other key outnumbers among the declaring repositories,
\* and of the keys that tie for that frequency it is the one that occurs
\* first in fetch order; licenses mit, mit, apache-2.0 give mit.
C14_LicenseIsFirstMostFrequent ==
  /\ most_common_license(<<Repo("a", <<"mit">>, 1, 1024, "a/releases"),
                           Repo("d", <<"mit">>, 0, 2048, "d/releases"),
                           Repo("b", <<"apache-2.0">>, 0, 512, "b/releases")>>)
       = "mit"
  /\ (repo_stats # <<>> /\ Declaring # {}) =>
       LET Freq(k) == Cardinality({i \in Declaring : repos[i].license[1] = k})
           First(k) == CHOOSE i \in Declaring :
                         /\ repos[i].license[1] = k
                         /\ \A j \in Declaring : repos[j].license[1] = k => i <= j
       IN \E w \in Declaring :
            /\ repo_stats.license = repos[w].license[1]
            /\ \A j \in Declaring :
                 /\ Freq(repos[j].license[1]) <= Freq(repos[w].license[1])
                 /\ Freq(repos[j].license[1]) = Freq(repos[w].license[1])
                      => First(repos[w].license[1]) <= First(repos[j].license[1])

C14_Witness ==
  /\ repo_stats # <<>>
  /\ Len(repos) = 3
  /\ repos[1].license = <<"apache-2.0">>
  /\ repos[2].license = <<"mit">>
  /\ repos[3].license = <<>>
  /\ repo_stats.license = "apache-2.0"

\* C15: when no repository declares a license, the empty list included, the
\* license analyze_repos reports is "none".
C15_NoLicenseGivesNone ==
  (repo_stats # <<>> /\ Declaring = {}) => repo_stats.license = "none"
(***************************************************************************)
(* The renderer under every display configuration of ConfigSet: one run    *)
(* from the construction of the generator on.                              *)
(***************************************************************************)
InitRender ==
  /\ pc = "init"
  /\ run = 1
  /\ FreshRun
  /\ svg_file = <<>>
  /\ readme_file = <<>>
  /\ svg_at_start = <<>>
  /\ readme_at_start = <<>>
  /\ calls = <<>>
  /\ config_file \in {<<>>} \cup {<<c>> : c \in ConfigSet}

NextRender ==
  \/ get_authenticated_user(Answers(UserBodies))
  \/ get_user_profile(Answers(ProfileBodies))
  \/ get_user_repos(TwoRepoPages)
  \/ get_user_events_begin
  \/ get_user_events(NoEventPages)
  \/ get_organizations(Answers(FewOrgBodies))
  \/ analyze_repos_begin
  \/ analyze_repos_probe
  \/ analyze_repos_return
  \/ analyze_events
  \/ get_starred_count(FewCountAnswers)
  \/ get_watching_count(FewCountAnswers)
  \/ get_issues_stats_open(Answers(FewSearchBodies))
  \/ get_issues_stats_comments(Answers(FewSearchBodies))
  \/ generate_stats_build
  \/ update_readme

SpecRender == InitRender /\ [][NextRender]_vars

\* the section of a panel in a configuration, empty when it is missing
SectionOf(cfg, panel) == IF panel \in DOMAIN cfg THEN cfg[panel] ELSE EmptyDict

\* a field is enabled unless its key is present and false
Enabled(cfg, panel, f) ==
  f \notin DOMAIN SectionOf(cfg, panel) \/ SectionOf(cfg, panel)[f]

\* the fields the graphic shows in its k-th panel
ShownFields(svg, k) == {svg.panels[k][i].field : i \in 1..Len(svg.panels[k])}

\* C16: in the rendered graphic, for each of the four panels, the header is
\* present exactly when at least one field of the panel is enabled, and each
\* field of the panel is present, once, exactly when it is enabled; a
\* missing key counts as enabled.
C16_HeaderAndFieldsFollowConfig ==
  svg_content # NoSvg =>
    \A k \in 1..Len(Panels) :
      /\ svg_content.headers[k] # <<>>
           <=> \E f \in FieldSet(Panels[k]) : Enabled(config, Panels[k], f)
      /\ \A f \in FieldSet(Panels[k]) :
           f \in ShownFields(svg_content, k) <=> Enabled(config, Panels[k], f)
      /\ Cardinality(ShownFields(svg_content, k)) = Len(svg_content.panels[k])

C16_Witness ==
  /\ pc = "done"
  /\ config_file # <<>>
  /\ SectionOf(config, "activity_stats") = [f \in {"commits"} |-> FALSE]
  /\ SectionOf(config, "metadata") = [f \in FieldSet("metadata") |-> FALSE]
  /\ svg_content.headers[1] # <<>>
  /\ ShownFields(svg_content, 1) = FieldSet("activity_stats") \ {"commits"}
  /\ svg_content.headers[4] = <<>>
  /\ svg_content.panels[4] = <<>>

\* the configuration that differs from cfg only in the fields of one panel
WithPanel(cfg, panel, setting) ==
  [s \in DOMAIN cfg \cup {panel} |-> IF s = panel THEN setting ELSE cfg[s]]

\* the coordinates of the elements of the k-th panel of a graphic
Coordinates(svg, k) ==
  LET hs == svg.headers[k]
      els == svg.panels[k] IN
  [header |-> {[x |-> hs[i].x, y |-> hs[i].y] : i \in 1..Len(hs)},
   fields |-> {[field |-> els[i].field, x |-> els[i].x, y |-> els[i].y,
                text_x |-> els[i].text_x, text_y |-> els[i].text_y] :
                 i \in 1..Len(els)}]

\* the graphic the same run renders under another configuration
Rendered(cfg) == generate_profile_section(profile, stats, cfg, today)

\* C17: for every configuration that differs from the run's only in the
\* fields of one panel, whatever that panel's fields are set to, the headers
\* and fields of each other panel have the same coordinates in the graphic
\* the run has just rendered and in the graphic rendered under that
\* configuration.
C17_SiblingPanelsDoNotMove ==
  pc = "update_readme" =>
    \A p \in 1..Len(Panels) : \A setting \in PanelSettings(Panels[p]) :
      LET other == Rendered(WithPanel(config, Panels[p], setting)) IN
      \A q \in 1..Len(Panels) \ {p} :
        Coordinates(svg_content, q) = Coordinates(other, q)

C17_Witness ==
  /\ pc = "update_readme"
  /\ SectionOf(config, "activity_stats") = [f \in {"commits"} |-> FALSE]
  /\ SectionOf(config, "community_stats") = _default_config["community_stats"]
  /\ LET other == Rendered(WithPanel(config, "activity_stats",
                                      [f \in FieldSet("activity_stats") |-> FALSE])) IN
       /\ Len(svg_content.panels[1]) = 4
       /\ other.panels[1] = <<>>
       /\ Len(other.panels[2]) = 4
       /\ other.panels[2] = svg_content.panels[2]

\* the place of a field in the fixed order of its panel
PlaceOf(panel, f) ==
  CHOOSE i \in 1..Len(PanelFields(panel)) : PanelFields(panel)[i] = f

\* C19: in the rendered graphic, the k-th enabled field of a panel, in the
\* panel's fixed field order, is at y = 210 + 25 * (k - 1), and every field
\* of the panel is at the panel's x: 20, 240, 460, 680.
C19_EnabledFieldsArePacked ==
  svg_content # NoSvg =>
    \A p \in 1..Len(Panels) : \A i \in 1..Len(svg_content.panels[p]) :
      LET el == svg_content.panels[p][i]
          k == Cardinality({j \in 1..PlaceOf(Panels[p], el.field) :
                  Enabled(config, Panels[p], PanelFields(Panels[p])[j])})
      IN /\ el.y = 210 + 25 * (k - 1)
         /\ el.x = <<20, 240, 460, 680>>[p]

C19_Witness ==
  /\ pc = "done"
  /\ SectionOf(config, "repository_stats")
       = [f \in FieldSet("repository_stats") |-> f \notin {"license", "releases"}]
  /\ \E i \in 1..Len(svg_content.panels[3]) :
       /\ svg_content.panels[3][i].field = "packages"
       /\ svg_content.panels[3][i].y = 235
       /\ svg_content.panels[3][i].x = 460
====
